---- MODULE Spec2Model ----
(***************************************************************************)
(* Model of bill-splitter.py: the balance computation                      *)
(* (compute_expense_balances, adjust_for_payments), the settlement sweep   *)
(* (settle_debts), the script's settlement pipeline and the two record     *)
(* entry forms.                                                            *)
(*                                                                         *)
(* Strings are tuples of one-character strings, so that str.strip() is     *)
(* computed and not assumed.  A Participants cell is the tuple of the      *)
(* pieces str.split(",") returns (never empty: "".split(",") is [""]).     *)
(*                                                                         *)
(* Money is exact: every amount is an integer number of money units, one   *)
(* unit being half of the 1e-9 tolerance of settle_debts (Eps = 2 units).  *)
(* The numeric amounts of the record sets are multiples of Unit, the least *)
(* common multiple of the participant counts, so that amount / n is exact. *)
(***************************************************************************)
EXTENDS Integers, Sequences, FiniteSets, TLC

VARIABLES
    expenses,      \* df_expenses: the rows of worksheet 0
    payments,      \* df_payments: the rows of worksheet 1
    pc,            \* position of the script run
    net_balance,   \* the dict net_balance
    debtors,       \* settle_debts: list of (person, amount)
    creditors,     \* settle_debts: list of (person, amount)
    i,             \* settle_debts: debtor cursor (0-based)
    j,             \* settle_debts: creditor cursor (0-based)
    transactions,  \* settle_debts: list of (debtor, creditor, amount)
    ui             \* what the last form submission showed

vars == <<expenses, payments, pc, net_balance, debtors, creditors, i, j, transactions, ui>>

\* ---------------------------------------------------------------------
\* Bounds and constants
\* ---------------------------------------------------------------------
\* 1e-9, in money units
Eps == 2

\* 0.01 and 100.0 of the percentage check, in units of 0.0025 percentage points
PctTolerance == 4
PctTotal == 40000

\* rows in the two worksheets together, when a run loads them
MaxRecords == 3
\* largest balance, in money units, of a mapping handed to settle_debts
MaxBal == 6
\* rows the forms may append
MaxRows == 2

\* ---------------------------------------------------------------------
\* Values
\* ---------------------------------------------------------------------
Range(s) == {s[k] : k \in 1..Len(s)}

Abs(x) == IF x < 0 THEN -x ELSE x

Min(a, b) == IF a < b THEN a ELSE b

RECURSIVE SumOver(_, _)
\* sum(f[p] for p in S)
SumOver(f, S) ==
    IF S = {} THEN 0
    ELSE LET p == CHOOSE q \in S : TRUE IN f[p] + SumOver(f, S \ {p})

Sum(f) == SumOver(f, DOMAIN f)

RECURSIVE Gcd(_, _)
Gcd(a, b) == IF b = 0 THEN a ELSE Gcd(b, a % b)

RECURSIVE LcmUpTo(_)
LcmUpTo(n) == IF n <= 1 THEN 1 ELSE LET l == LcmUpTo(n - 1) IN (l * n) \div Gcd(l, n)

RECURSIVE Perms(_)
\* every ordering of the sequence s
Perms(s) ==
    IF s = <<>> THEN {<<>>}
    ELSE UNION {{<<s[k]>> \o rest :
                    rest \in Perms(SubSeq(s, 1, k - 1) \o SubSeq(s, k + 1, Len(s)))} :
                k \in 1..Len(s)}

SeqsUpTo(S, n) == UNION {[1..m -> S] : m \in 0..n}

\* names as the sheet or a text input holds them
NameA == <<"A">>
NameB == <<"B", " ">>
NameC == <<" ", "C">>
Blank == <<" ">>
Empty == <<>>

Num(n) == [kind |-> "num", val |-> n]
Text == [kind |-> "text", val |-> 0]

EmptyBal == [p \in {} |-> 0]

\* ---------------------------------------------------------------------
\* Helpers of the balance computation
\* ---------------------------------------------------------------------
RECURSIVE lstrip(_)
lstrip(s) == IF s # <<>> /\ Head(s) = " " THEN lstrip(Tail(s)) ELSE s

RECURSIVE rstrip(_)
rstrip(s) == IF s # <<>> /\ s[Len(s)] = " " THEN rstrip(SubSeq(s, 1, Len(s) - 1)) ELSE s

\* str.strip()
strip(s) == rstrip(lstrip(s))

\* [p.strip() for p in str(participants).split(",") if p.strip()]
participant_list(cell) ==
    SelectSeq([k \in 1..Len(cell) |-> strip(cell[k])], LAMBDA p : p # <<>>)

\* try: float(row.get("Amount", 0))  except: 0
to_float(cell) == IF cell.kind = "num" THEN cell.val ELSE 0

Returned(bal) == [raised |-> FALSE, bal |-> bal]
KeyError == [raised |-> TRUE, bal |-> EmptyBal]

\* first loop of compute_expense_balances: the set persons
expense_persons(exps) ==
    UNION {({strip(exps[k].Payer)} \ {<<>>}) \cup Range(participant_list(exps[k].Participants)) :
           k \in 1..Len(exps)}

RECURSIVE deduct_shares(_, _, _)
\* for p in participant_list: net_balance[p] -= share
deduct_shares(nb, pl, share) ==
    IF pl = <<>> THEN nb
    ELSE deduct_shares([nb EXCEPT ![Head(pl)] = @ - share], Tail(pl), share)

\* apply_expense with "net_balance[payer] = amount" for "+="
apply_expense_overwrite(nb, row) ==
    LET payer == strip(row.Payer)
        pl == participant_list(row.Participants)
        amount == to_float(row.Amount)
        share == IF pl # <<>> THEN amount \div Len(pl) ELSE 0
    IN  IF payer \notin DOMAIN nb THEN KeyError
        ELSE Returned(deduct_shares([nb EXCEPT ![payer] = amount], pl, share))

RECURSIVE deduct_weighted(_, _, _, _)
deduct_weighted(nb, pl, amount, pct) ==
    IF pl = <<>> THEN nb
    ELSE LET w == {e \in pct : e[1] = Head(pl)}
             share == IF w = {} THEN 0 ELSE (amount * (CHOOSE e \in w : TRUE)[2]) \div PctTotal
         IN  deduct_weighted([nb EXCEPT ![Head(pl)] = @ - share], Tail(pl), amount, pct)

\* apply_expense with a Custom expense split by its percentages
apply_expense_weighted(nb, row) ==
    LET payer == strip(row.Payer)
        pl == participant_list(row.Participants)
        amount == to_float(row.Amount)
        share == IF pl # <<>> THEN amount \div Len(pl) ELSE 0
    IN  IF payer \notin DOMAIN nb THEN KeyError
        ELSE IF row.SplitType = "Custom"
        THEN Returned(deduct_weighted([nb EXCEPT ![payer] = @ + amount], pl, amount,
                                      row.Percentages))
        ELSE Returned(deduct_shares([nb EXCEPT ![payer] = @ + amount], pl, share))

\* one iteration of the second loop of compute_expense_balances
apply_expense(nb, row) ==
    LET payer == strip(row.Payer)
        pl == participant_list(row.Participants)
        amount == to_float(row.Amount)
        share == IF pl # <<>> THEN amount \div Len(pl) ELSE 0
    IN  IF payer \notin DOMAIN nb THEN KeyError
        ELSE Returned(deduct_shares([nb EXCEPT ![payer] = @ + amount], pl, share))

RECURSIVE expense_loop(_, _)
expense_loop(r, exps) ==
    IF r.raised \/ exps = <<>> THEN r
    ELSE expense_loop(apply_expense(r.bal, Head(exps)), Tail(exps))

compute_expense_balances(exps) ==
    expense_loop(Returned([p \in expense_persons(exps) |-> 0]), exps)

\* apply_payment with the signs exchanged: the payer's balance decreases
apply_payment_reversed(nb, row) ==
    LET amount == to_float(row.Amount)
        payer == strip(row.Payer)
        payee == strip(row.Payee)
        afterPayer == IF payer # <<>> THEN [nb EXCEPT ![payer] = @ - amount] ELSE nb
    IN  IF payer # <<>> /\ payer \notin DOMAIN nb THEN KeyError
        ELSE IF payee # <<>> /\ payee \notin DOMAIN nb THEN KeyError
        ELSE IF payee # <<>> THEN Returned([afterPayer EXCEPT ![payee] = @ + amount])
        ELSE Returned(afterPayer)

\* one iteration of the loop of adjust_for_payments
apply_payment(nb, row) ==
    LET amount == to_float(row.Amount)
        payer == strip(row.Payer)
        payee == strip(row.Payee)
        afterPayer == IF payer # <<>> THEN [nb EXCEPT ![payer] = @ + amount] ELSE nb
    IN  IF payer # <<>> /\ payer \notin DOMAIN nb THEN KeyError
        ELSE IF payee # <<>> /\ payee \notin DOMAIN nb THEN KeyError
        ELSE IF payee # <<>> THEN Returned([afterPayer EXCEPT ![payee] = @ - amount])
        ELSE Returned(afterPayer)

RECURSIVE payment_loop(_, _)
payment_loop(r, pays) ==
    IF r.raised \/ pays = <<>> THEN r
    ELSE payment_loop(apply_payment(r.bal, Head(pays)), Tail(pays))

adjust_for_payments(nb, pays) == payment_loop(Returned(nb), pays)

\* lines 207-208 of the script
balances_of(exps, pays) ==
    LET r == compute_expense_balances(exps)
    IN  IF r.raised THEN r ELSE adjust_for_payments(r.bal, pays)

\* ---------------------------------------------------------------------
\* Helpers of settle_debts
\* ---------------------------------------------------------------------
creditor_set(nb) == {p \in DOMAIN nb : nb[p] > Eps}

\* debtor_set with "amt < 1e-9" for "amt < -1e-9"
debtor_set_slip(nb) == {p \in DOMAIN nb : nb[p] < Eps}

debtor_set(nb) == {p \in DOMAIN nb : nb[p] < -Eps}

RECURSIVE sorted_ascending(_, _)
\* the orders list.sort(key=amount) can leave the persons of S in: the sort is
\* stable, and the order of equal amounts is the dict's insertion order, which
\* comes from iterating a set of strings
sorted_ascending(S, nb) ==
    IF S = {} THEN {<<>>}
    ELSE UNION {{<<<<p, nb[p]>>>> \o rest : rest \in sorted_ascending(S \ {p}, nb)} :
                p \in {q \in S : \A r \in S : nb[q] <= nb[r]}}

RECURSIVE sorted_descending(_, _)
sorted_descending(S, nb) ==
    IF S = {} THEN {<<>>}
    ELSE UNION {{<<<<p, nb[p]>>>> \o rest : rest \in sorted_descending(S \ {p}, nb)} :
                p \in {q \in S : \A r \in S : nb[q] >= nb[r]}}

\* while i < len(debtors) and j < len(creditors)
loop_condition(s) == s.i < Len(s.debtors) /\ s.j < Len(s.creditors)

\* advance_debtor with "d_amt > 1e-9" for "abs(d_amt) < 1e-9"
advance_debtor_positive(d_amt) == d_amt > Eps

advance_debtor(d_amt) == Abs(d_amt) < Eps

\* advance_creditor with a tolerance of 2e-9
advance_creditor_coarse(c_amt) == Abs(c_amt) < 2 * Eps

advance_creditor(c_amt) == Abs(c_amt) < Eps

\* the body of the while loop of settle_debts
loop_body(s) ==
    LET debtor == s.debtors[s.i + 1][1]
        d_amt == s.debtors[s.i + 1][2]
        creditor == s.creditors[s.j + 1][1]
        c_amt == s.creditors[s.j + 1][2]
        settlement == Min(c_amt, -d_amt)
        d_new == d_amt + settlement
        c_new == c_amt - settlement
    IN  [debtors |-> [s.debtors EXCEPT ![s.i + 1] = <<debtor, d_new>>],
         creditors |-> [s.creditors EXCEPT ![s.j + 1] = <<creditor, c_new>>],
         i |-> IF advance_debtor(d_new) THEN s.i + 1 ELSE s.i,
         j |-> IF advance_creditor(c_new) THEN s.j + 1 ELSE s.j,
         transactions |-> Append(s.transactions, <<debtor, creditor, settlement>>)]

sweep_start(ds, cs) ==
    [debtors |-> ds, creditors |-> cs, i |-> 0, j |-> 0, transactions |-> <<>>]

RECURSIVE sweep(_)
sweep(s) == IF loop_condition(s) THEN sweep(loop_body(s)) ELSE s.transactions

\* the lists settle_debts(nb) can return
settle_debts(nb) ==
    {sweep(sweep_start(ds, cs)) :
        ds \in sorted_ascending(debtor_set(nb), nb),
        cs \in sorted_descending(creditor_set(nb), nb)}

\* ---------------------------------------------------------------------
\* The script run: lines 207-209
\* ---------------------------------------------------------------------
NoSweep ==
    /\ debtors = <<>>
    /\ creditors = <<>>
    /\ i = 0
    /\ j = 0
    /\ transactions = <<>>

ComputeExpenseBalances ==
    /\ pc = "compute"
    /\ LET r == compute_expense_balances(expenses)
       IN  /\ pc' = IF r.raised THEN "KeyError" ELSE "adjust"
           /\ net_balance' = r.bal
    /\ UNCHANGED <<expenses, payments, debtors, creditors, i, j, transactions, ui>>

AdjustForPayments ==
    /\ pc = "adjust"
    /\ LET r == adjust_for_payments(net_balance, payments)
       IN  /\ pc' = IF r.raised THEN "KeyError" ELSE "settle"
           /\ net_balance' = r.bal
    /\ UNCHANGED <<expenses, payments, debtors, creditors, i, j, transactions, ui>>

\* settle_debts, lines 158-163
SettleStart ==
    /\ pc = "settle"
    /\ \E ds \in sorted_ascending(debtor_set(net_balance), net_balance),
          cs \in sorted_descending(creditor_set(net_balance), net_balance) :
          /\ debtors' = ds
          /\ creditors' = cs
    /\ i' = 0
    /\ j' = 0
    /\ transactions' = <<>>
    /\ pc' = "sweep"
    /\ UNCHANGED <<expenses, payments, net_balance, ui>>

SweepState ==
    [debtors |-> debtors, creditors |-> creditors, i |-> i, j |-> j,
     transactions |-> transactions]

\* settle_debts, one iteration of lines 164-176
SettleStep ==
    /\ pc = "sweep"
    /\ loop_condition(SweepState)
    /\ LET s == loop_body(SweepState)
       IN  /\ debtors' = s.debtors
           /\ creditors' = s.creditors
           /\ i' = s.i
           /\ j' = s.j
           /\ transactions' = s.transactions
    /\ UNCHANGED <<expenses, payments, pc, net_balance, ui>>

\* settle_debts, line 177
SettleReturn ==
    /\ pc = "sweep"
    /\ ~loop_condition(SweepState)
    /\ pc' = "done"
    /\ UNCHANGED <<expenses, payments, net_balance, debtors, creditors, i, j, transactions, ui>>

\* ---------------------------------------------------------------------
\* Record sets of the pipeline
\* ---------------------------------------------------------------------
ParticipantCells == {<<Empty>>, <<NameA, NameB>>, <<Blank, NameC>>}

Unit == LcmUpTo(2)

ExpenseRows ==
    [Payer : {NameA, NameB},
     Amount : {Num(Unit), Num(3 * Unit)},
     Participants : ParticipantCells,
     SplitType : {"Equal"},
     Percentages : {{}}]

PaymentRows ==
    [Payer : {NameB, NameC},
     Amount : {Num(3 * Unit), Text},
     Payee : {NameA, Blank}]

Init ==
    /\ expenses \in SeqsUpTo(ExpenseRows, MaxRecords)
    /\ payments \in SeqsUpTo(PaymentRows, MaxRecords - Len(expenses))
    /\ pc = "compute"
    /\ net_balance = EmptyBal
    /\ NoSweep
    /\ ui = "none"

Next ==
    \/ ComputeExpenseBalances
    \/ AdjustForPayments
    \/ SettleStart
    \/ SettleStep
    \/ SettleReturn

Spec == Init /\ [][Next]_vars

\* ---------------------------------------------------------------------
\* settle_debts on any balance mapping
\* ---------------------------------------------------------------------
Persons == {<<"A">>, <<"B">>, <<"C">>, <<"D">>}

InitSettle ==
    /\ expenses = <<>>
    /\ payments = <<>>
    /\ pc = "settle"
    /\ net_balance \in [Persons -> (-MaxBal)..MaxBal]
    /\ NoSweep
    /\ ui = "none"

NextSettle ==
    \/ SettleStart
    \/ SettleStep
    \/ SettleReturn

SpecSettle == InitSettle /\ [][NextSettle]_vars

\* ---------------------------------------------------------------------
\* The entry forms: lines 220-305
\* ---------------------------------------------------------------------
FormNames == {Empty, Blank, NameA, NameB}

FormAmounts == {3 * Unit}

FormParticipants == {<<Empty>>, <<NameA>>, <<NameA, NameB>>}

PctChoices == {0, 19999, 20004, 40000}

\* sum(exp_percentages.values()), the dict being a set of (participant, percentage)
RECURSIVE sum_values(_)
sum_values(d) ==
    IF d = {} THEN 0
    ELSE LET e == CHOOSE x \in d : TRUE IN e[2] + sum_values(d \ {e})

\* the if/elif chain of lines 241-249
expense_error(exp_payer, exp_amount, exp_part_list, exp_split_type, exp_percentages) ==
    IF exp_payer = <<>> THEN "Please enter the payer's name."
    ELSE IF exp_amount <= 0 THEN "Amount must be greater than 0."
    ELSE IF exp_part_list = <<>> THEN "Please enter at least one participant."
    ELSE IF exp_split_type = "Custom" /\ Abs(sum_values(exp_percentages) - PctTotal) > PctTolerance
         THEN "For custom splits, the total percentage must equal 100%."
    ELSE ""

\* the if/elif chain of lines 284-290
payment_error(pay_payer, pay_amount, pay_payee) ==
    IF pay_payer = <<>> THEN "Please enter the payer's name."
    ELSE IF pay_payee = <<>> THEN "Please enter the payee's name."
    ELSE IF pay_amount <= 0 THEN "Amount must be greater than 0."
    ELSE ""

\* st.rerun(): the script starts again and loads both worksheets
Rerun ==
    /\ pc' = "compute"
    /\ net_balance' = EmptyBal
    /\ debtors' = <<>>
    /\ creditors' = <<>>
    /\ i' = 0
    /\ j' = 0
    /\ transactions' = <<>>

\* the "Add Expense" button, lines 221-270
SubmitExpense ==
    /\ pc = "done"
    /\ Len(expenses) + Len(payments) < MaxRows
    /\ \E exp_payer \in FormNames, exp_amount \in FormAmounts,
          exp_participants \in FormParticipants, exp_split_type \in {"Equal", "Custom"} :
          LET exp_part_list == participant_list(exp_participants)
          IN  \E pct \in IF exp_split_type = "Custom" /\ exp_part_list # <<>>
                         THEN [Range(exp_part_list) -> PctChoices]
                         ELSE {EmptyBal} :
                  LET exp_percentages == {<<p, pct[p]>> : p \in DOMAIN pct}
                      exp_error == expense_error(exp_payer, exp_amount, exp_part_list,
                                                 exp_split_type, exp_percentages)
                      new_expense ==
                          [Payer |-> exp_payer,
                           Amount |-> Num(exp_amount),
                           Participants |-> exp_participants,
                           SplitType |-> exp_split_type,
                           Percentages |-> IF exp_split_type = "Custom"
                                           THEN exp_percentages ELSE {}]
                  IN  IF exp_error # ""
                      THEN /\ ui' = exp_error
                           /\ UNCHANGED <<expenses, payments, pc, net_balance, debtors,
                                          creditors, i, j, transactions>>
                      ELSE /\ \E appended \in BOOLEAN :
                                  expenses' = IF appended THEN Append(expenses, new_expense)
                                              ELSE expenses
                           /\ ui' = "Expense added successfully!"
                           /\ Rerun
                           /\ UNCHANGED payments

\* the "Add Payment" button, lines 276-305
SubmitPayment ==
    /\ pc = "done"
    /\ Len(expenses) + Len(payments) < MaxRows
    /\ \E pay_payer \in FormNames, pay_amount \in FormAmounts, pay_payee \in FormNames :
          LET pay_error == payment_error(pay_payer, pay_amount, pay_payee)
              new_payment ==
                  [Payer |-> pay_payer, Amount |-> Num(pay_amount), Payee |-> pay_payee]
          IN  IF pay_error # ""
              THEN /\ ui' = pay_error
                   /\ UNCHANGED <<expenses, payments, pc, net_balance, debtors,
                                  creditors, i, j, transactions>>
              ELSE /\ \E appended \in BOOLEAN :
                          payments' = IF appended THEN Append(payments, new_payment)
                                      ELSE payments
                   /\ ui' = "Payment added successfully!"
                   /\ Rerun
                   /\ UNCHANGED expenses

InitUI ==
    /\ expenses = <<>>
    /\ payments = <<>>
    /\ pc = "compute"
    /\ net_balance = EmptyBal
    /\ NoSweep
    /\ ui = "none"

NextUI ==
    \/ ComputeExpenseBalances
    \/ AdjustForPayments
    \/ SettleStart
    \/ SettleStep
    \/ SettleReturn
    \/ SubmitExpense
    \/ SubmitPayment

SpecUI == InitUI /\ [][NextUI]_vars

\* ---------------------------------------------------------------------
\* Properties
\* ---------------------------------------------------------------------
\* the run has returned from adjust_for_payments
Adjusted == pc \in {"settle", "sweep", "done"}

\* every person a record names
mentioned(exps, pays) ==
    expense_persons(exps)
        \cup (UNION {{strip(pays[k].Payer), strip(pays[k].Payee)} : k \in 1..Len(pays)} \ {<<>>})

\* no record has a blank payer or payee
WellNamed ==
    /\ \A k \in 1..Len(expenses) : strip(expenses[k].Payer) # <<>>
    /\ \A k \in 1..Len(payments) :
          strip(payments[k].Payer) # <<>> /\ strip(payments[k].Payee) # <<>>

\* C1: the balances the run computes from the two record sets sum to 0
\* over all persons, whatever the records
ZeroSum == Adjusted => Sum(net_balance) = 0

\* C3: once the records are processed there is a balance mapping, and its
\* persons are exactly the persons named as payer, participant or payee in
\* either record set (here on record sets without blank payers and payees)
EveryPersonHasEntry ==
    (WellNamed /\ pc \notin {"compute", "adjust"}) =>
        (pc # "KeyError" /\ DOMAIN net_balance = mentioned(expenses, payments))

\* the rows with every non-numeric Amount replaced by the number 0
zero_text(rows) ==
    [k \in 1..Len(rows) |->
        IF rows[k].Amount.kind = "num" THEN rows[k] ELSE [rows[k] EXCEPT !.Amount = Num(0)]]

\* C4: on record sets whose names are non-blank the run never raises, and
\* the balances are those of the same records with 0 for each non-numeric Amount
Totality ==
    WellNamed =>
        /\ pc # "KeyError"
        /\ Adjusted => Returned(net_balance) = balances_of(zero_text(expenses), zero_text(payments))

ValidExpense(row) ==
    /\ strip(row.Payer) # <<>>
    /\ to_float(row.Amount) > 0
    /\ participant_list(row.Participants) # <<>>
    /\ row.SplitType = "Custom" => Abs(sum_values(row.Percentages) - PctTotal) <= PctTolerance

ValidPayment(row) ==
    /\ strip(row.Payer) # <<>>
    /\ strip(row.Payee) # <<>>
    /\ to_float(row.Amount) > 0

\* C5: every record the forms appended has a payer (and payee) that is a
\* non-empty name once trimmed, an amount > 0, and for an expense at least one
\* participant and, for Custom, percentages summing to 100 within 0.01
AppendedRecordsValid ==
    /\ \A k \in 1..Len(expenses) : ValidExpense(expenses[k])
    /\ \A k \in 1..Len(payments) : ValidPayment(payments[k])

\* C6: every permutation of the expense records and of the payment records
\* gives the outcome the run computed: the same balance mapping, or the same error
OrderIndependent ==
    pc \in {"settle", "KeyError"} =>
        \A e \in Perms(expenses), p \in Perms(payments) :
            LET r == balances_of(e, p)
            IN  IF pc = "KeyError" THEN r.raised
                ELSE ~r.raised /\ r.bal = net_balance

OrderIndependentWitness ==
    /\ pc = "settle"
    /\ Len(expenses) = 2
    /\ expenses[1] # expenses[2]
    /\ strip(expenses[1].Payer) = strip(expenses[2].Payer)
    /\ Len(payments) = 1
    /\ \E p \in DOMAIN net_balance : net_balance[p] > Eps

\* the rows with Split Type set to Equal and no percentages
as_equal(exps) ==
    [k \in 1..Len(exps) |-> [exps[k] EXCEPT !.SplitType = "Equal", !.Percentages = {}]]

occurrences(p, pl) == Cardinality({k \in 1..Len(pl) : pl[k] = p})

\* C7: the balances of the expense records are those of the same records with
\* Split Type Equal, and a single expense gives the payer its full amount and
\* takes amount / |participants| from each listed participant
SplitTypeIgnored ==
    pc = "adjust" =>
        /\ Returned(net_balance) = compute_expense_balances(as_equal(expenses))
        /\ Len(expenses) = 1 =>
              LET row == expenses[1]
                  pl == participant_list(row.Participants)
                  amount == to_float(row.Amount)
              IN  \A p \in DOMAIN net_balance :
                      net_balance[p] * Len(pl) =
                          (IF p = strip(row.Payer) THEN amount * Len(pl) ELSE 0)
                              - amount * occurrences(p, pl)

SplitTypeIgnoredWitness ==
    /\ pc = "adjust"
    /\ Len(expenses) = 1
    /\ expenses[1].SplitType = "Custom"
    /\ expenses[1].Percentages = {<<<<"A">>, 0>>, <<<<"B">>, PctTotal>>}
    /\ net_balance[<<"A">>] # 0

\* the balance of person p after every transaction of txs is replayed
paid(p, txs) == LET f == [k \in 1..Len(txs) |-> IF txs[k][1] = p THEN txs[k][3] ELSE 0]
                IN  SumOver(f, DOMAIN f)

received(p, txs) == LET f == [k \in 1..Len(txs) |-> IF txs[k][2] = p THEN txs[k][3] ELSE 0]
                    IN  SumOver(f, DOMAIN f)

replayed(nb, p, txs) == nb[p] + paid(p, txs) - received(p, txs)

\* every balance is a whole multiple of an amount larger than the tolerance
Grained(nb) == \E g \in (Eps + 1)..MaxBal : \A p \in DOMAIN nb : nb[p] % g = 0

\* C2 as claimed: for every mapping that sums to 0, replaying the returned
\* transactions leaves every balance at 0
ReplaySettlesAll ==
    (pc = "done" /\ Sum(net_balance) = 0) =>
        \A p \in DOMAIN net_balance : replayed(net_balance, p, transactions) = 0

\* C2 amended: for every mapping that sums to 0 and whose balances are whole
\* multiples of an amount larger than 1e-9, replaying the returned
\* transactions leaves every balance at 0
ReplaySettlesGrained ==
    (pc = "done" /\ Sum(net_balance) = 0 /\ Grained(net_balance)) =>
        \A p \in DOMAIN net_balance : replayed(net_balance, p, transactions) = 0

ReplaySettlesGrainedWitness ==
    /\ pc = "done"
    /\ Sum(net_balance) = 0
    /\ Grained(net_balance)
    /\ Len(debtors) = 1
    /\ Len(transactions) = 2

\* C8: each iteration of the sweep appends one transaction and advances a
\* cursor, the list never has more than D + C - 1 transactions, and with no
\* debtors or no creditors the empty list is returned
SweepTerminates ==
    [][pc = "sweep" =>
          /\ pc' = "sweep" =>
                /\ i' >= i /\ j' >= j /\ i' + j' > i + j
                /\ Len(transactions') = Len(transactions) + 1
                /\ Len(transactions') <= Len(debtors) + Len(creditors) - 1
          /\ (pc' = "done" /\ (debtors = <<>> \/ creditors = <<>>)) => transactions' = <<>>]_vars

SweepTerminatesWitness ==
    /\ pc = "done"
    /\ Len(debtors) = 2
    /\ Len(creditors) = 2
    /\ Len(transactions) = 3

\* C9: for any mapping, every transaction has a positive amount, a debtor
\* with a negative balance and a creditor with a positive one, no debtor pays
\* more than is owed and no creditor receives more than is owed
NoOverpay ==
    pc \in {"sweep", "done"} =>
        /\ \A k \in 1..Len(transactions) :
              /\ transactions[k][3] > 0
              /\ net_balance[transactions[k][1]] < 0
              /\ net_balance[transactions[k][2]] > 0
        /\ \A p \in DOMAIN net_balance :
              /\ net_balance[p] < 0 => paid(p, transactions) <= -net_balance[p]
              /\ net_balance[p] > 0 => received(p, transactions) <= net_balance[p]

NoOverpayWitness ==
    /\ pc = "done"
    /\ Sum(net_balance) # 0
    /\ Len(transactions) = 3

RECURSIVE plan_rows(_, _)
\* the payment rows that record the transactions txs[k], k in K, in order
plan_rows(txs, K) ==
    IF txs = <<>> THEN <<>>
    ELSE LET n == Len(txs)
             front == plan_rows(SubSeq(txs, 1, n - 1), K)
         IN  IF n \in K
             THEN Append(front, [Payer |-> txs[n][1], Amount |-> Num(txs[n][3]),
                                 Payee |-> txs[n][2]])
             ELSE front

\* a debtor has not become a creditor, nor a creditor a debtor
NoSideChange(before, after) ==
    /\ debtor_set(before) \cap creditor_set(after) = {}
    /\ creditor_set(before) \cap debtor_set(after) = {}

\* C10 as claimed: in a store whose balances sum to 0, once every transaction
\* of the plan is appended as a payment every recomputed balance is 0 and the
\* recomputed plan is empty; appending some of them moves nobody to the other side
PayingPlanZeroes ==
    (pc = "done" /\ Sum(net_balance) = 0) =>
        /\ LET r == balances_of(expenses, payments \o plan_rows(transactions, 1..Len(transactions)))
           IN  /\ ~r.raised
               /\ \A p \in DOMAIN r.bal : r.bal[p] = 0
               /\ settle_debts(r.bal) = {<<>>}
        /\ \A K \in SUBSET (1..Len(transactions)) :
              LET r == balances_of(expenses, payments \o plan_rows(transactions, K))
              IN  ~r.raised /\ NoSideChange(net_balance, r.bal)

\* C10 amended: in a store whose balances sum to 0, once every transaction of
\* the plan is appended as a payment the recomputed plan is empty, and every
\* recomputed balance is 0 when the balances are whole multiples of an amount
\* larger than 1e-9; appending some of them moves nobody to the other side
PayingPlanSettles ==
    (pc = "done" /\ Sum(net_balance) = 0) =>
        /\ LET r == balances_of(expenses, payments \o plan_rows(transactions, 1..Len(transactions)))
           IN  /\ ~r.raised
               /\ Grained(net_balance) => \A p \in DOMAIN r.bal : r.bal[p] = 0
               /\ settle_debts(r.bal) = {<<>>}
        /\ \A K \in SUBSET (1..Len(transactions)) :
              LET r == balances_of(expenses, payments \o plan_rows(transactions, K))
              IN  ~r.raised /\ NoSideChange(net_balance, r.bal)

PayingPlanSettlesWitness ==
    /\ pc = "done"
    /\ Sum(net_balance) = 0
    /\ Grained(net_balance)
    /\ Len(transactions) = 2
    /\ Len(payments) = 1

====
